---- MODULE Spec2Model ----
(***************************************************************************)
(* Model of the reverse proxy of src/main.rs: the four route handlers,     *)
(* handle_request step by step (one action per stretch of code between     *)
(* two awaits), and the two responders that turn its result into the       *)
(* outbound response.                                                      *)
(*                                                                         *)
(* Text is a sequence of chunks.  Header names are spelled one character   *)
(* per chunk so that lowercasing is computed; header values, paths and     *)
(* queries are sequences of opaque chunks.  Option<T> is a sequence of     *)
(* length 0 (None) or 1 (Some).                                            *)
(***************************************************************************)
EXTENDS Integers, Sequences, FiniteSets, TLC

(* ------------------------------ bounds -------------------------------- *)
MaxHeaders == 2
MaxQueryLen == 2
MaxOver == 1

(* --------------------------- generic helpers -------------------------- *)
None == <<>>
Some(x) == <<x>>

SeqsUpTo(S, n) == UNION {[1..k -> S] : k \in 0..n}

(* ------------------------------ text ---------------------------------- *)
Upper == <<"A","B","C","D","E","F","G","H","I","J","K","L","M",
           "N","O","P","Q","R","S","T","U","V","W","X","Y","Z">>
Lower == <<"a","b","c","d","e","f","g","h","i","j","k","l","m",
           "n","o","p","q","r","s","t","u","v","w","x","y","z">>

LowerChar(c) ==
    IF \E i \in DOMAIN Upper : Upper[i] = c
    THEN Lower[CHOOSE i \in DOMAIN Upper : Upper[i] = c]
    ELSE c

\* str::to_lowercase, character by character
to_lowercase(name) == [i \in DOMAIN name |-> LowerChar(name[i])]

\* chunks that stand for a byte outside visible ASCII
NonAsciiChunks == {"0xE9", "0x01"}

\* HeaderValue::to_str succeeds only on visible ASCII
to_str_ok(value) == \A i \in DOMAIN value : value[i] \notin NonAsciiChunks

\* chunks that stand for an ill-formed Unicode sequence in an OsStr
InvalidUnicodeChunks == {"0xFF"}

\* Path::to_string_lossy: ill-formed sequences become U+FFFD
to_string_lossy(path) ==
    [i \in DOMAIN path |-> IF path[i] \in InvalidUnicodeChunks THEN "U+FFFD" ELSE path[i]]

(* --------------------------- header names ----------------------------- *)
n_host == <<"h","o","s","t">>
n_Host == <<"H","o","s","t">>
n_HOST == <<"H","O","S","T">>
n_connection == <<"c","o","n","n","e","c","t","i","o","n">>
n_Connection == <<"C","o","n","n","e","c","t","i","o","n">>
n_content_length == <<"c","o","n","t","e","n","t","-","l","e","n","g","t","h">>
n_Content_Length == <<"C","o","n","t","e","n","t","-","L","e","n","g","t","h">>
n_transfer_encoding ==
    <<"t","r","a","n","s","f","e","r","-","e","n","c","o","d","i","n","g">>
n_Transfer_Encoding ==
    <<"T","r","a","n","s","f","e","r","-","E","n","c","o","d","i","n","g">>
n_x_frame_options == <<"x","-","f","r","a","m","e","-","o","p","t","i","o","n","s">>
n_X_Frame_Options == <<"X","-","F","r","a","m","e","-","O","p","t","i","o","n","s">>
n_accept == <<"a","c","c","e","p","t">>
n_Accept == <<"A","c","c","e","p","t">>
n_user_agent == <<"u","s","e","r","-","a","g","e","n","t">>
n_User_Agent == <<"U","s","e","r","-","A","g","e","n","t">>
n_content_type == <<"c","o","n","t","e","n","t","-","t","y","p","e">>
n_Content_Type == <<"C","o","n","t","e","n","t","-","T","y","p","e">>
n_Set_Cookie == <<"S","e","t","-","C","o","o","k","i","e">>
n_X_Bin == <<"X","-","B","i","n">>
n_Roblox_Proxy_Debug ==
    <<"R","o","b","l","o","x","-","P","r","o","x","y","-","D","e","b","u","g">>

Hdr(n, v) == [name |-> n, value |-> v]

(* ------------------------ program constants --------------------------- *)
\* 5_i32.mebibytes()
BodyLimit == 5 * 1024 * 1024

\* Duration::from_secs(30)
TimeoutSecs == 30

BaseUrl == <<"https://www.roblox.com/">>

excluded_headers ==
    {n_host, n_connection, n_content_length, n_x_frame_options, n_transfer_encoding}

InternalServerError == 500

InternalServerErrorBody == <<"Internal Server Error">>

PlainContentType == <<"text/plain; charset=utf-8">>

OctetStream == <<"application/octet-stream">>

\* the headers handle_request sets on every upstream request
DebugHeaders ==
    << Hdr(to_lowercase(n_Roblox_Proxy_Debug), <<"true">>),
       Hdr(to_lowercase(n_Accept), <<"*/*">>) >>

\* the headers the Client adds when the request has none of that name
ClientDefaultHeaders ==
    << Hdr(n_user_agent, <<"RobloxProxy/1.0">>), Hdr(n_accept, <<"*/*">>) >>

\* the codes rocket::http::Status::from_code knows
KnownStatusCodes ==
    (100..102) \cup (200..208) \cup {226} \cup (300..305) \cup {307, 308}
    \cup (400..418) \cup (421..424) \cup {426, 428, 429, 431, 451}
    \cup (500..508) \cup {510, 511}

(* ------------------------------ errors -------------------------------- *)
\* anyhow!(msg)
anyhow(msg) == [msg |-> msg, source |-> None]

\* Result::context(msg) on an Err(cause)
context(msg, cause) == [msg |-> msg, source |-> Some(cause)]

Ok(v) == [ok |-> TRUE, value |-> v]
Err(e) == [ok |-> FALSE, err |-> e]

(* ----------------------- handle_request, pure parts ------------------- *)
\* build_url with the "?" between path and query left out
build_url_without_separator(path, query) ==
    LET base_url == BaseUrl \o to_string_lossy(path)
    IN  IF query # None THEN base_url \o query[1] ELSE base_url

\* lines 148-157
build_url(path, query) ==
    LET base_url == BaseUrl \o to_string_lossy(path)
    IN  IF query # None THEN base_url \o <<"?">> \o query[1] ELSE base_url

\* lines 161-167: the methods the match has a client call for
SupportedMethods == {"Get", "Post", "Put", "Delete"}

\* http::HeaderName stores every name in lower case
HeaderName(name) == to_lowercase(name)

\* is_excluded comparing the name as it came, without lowercasing
is_excluded_exact(name) == name \in excluded_headers

\* the test of lines 185-186 and 248-249
is_excluded(name) == to_lowercase(name) \in excluded_headers

RECURSIVE forward_request_headers(_)
\* lines 184-190: the inbound headers appended to the request builder
forward_request_headers(headers) ==
    IF headers = <<>> THEN <<>>
    ELSE LET h == Head(headers)
             rest == forward_request_headers(Tail(headers))
         IN  IF ~is_excluded(h.name)
             THEN <<Hdr(HeaderName(h.name), h.value)>> \o rest
             ELSE rest

\* lines 161-190: the request builder before the body is attached
new_request_builder(method, url, headers) ==
    [method |-> method,
     url |-> url,
     headers |-> DebugHeaders \o forward_request_headers(headers),
     body |-> None]

\* lines 194-197: data.open(limit).into_bytes() reads at most limit bytes
into_bytes(len) == IF len <= BodyLimit THEN len ELSE BodyLimit

RECURSIVE apply_default_headers(_, _)
\* Client::execute: a default header is inserted when the name is vacant
apply_default_headers(headers, defaults) ==
    IF defaults = <<>> THEN headers
    ELSE LET d == Head(defaults)
             present == \E i \in DOMAIN headers : headers[i].name = d.name
         IN  apply_default_headers(IF present THEN headers ELSE Append(headers, d),
                                   Tail(defaults))

\* the response as reqwest hands it over: names are HeaderNames
received(wire) ==
    [status |-> wire.status,
     headers |-> [i \in DOMAIN wire.headers |->
                    Hdr(HeaderName(wire.headers[i].name), wire.headers[i].value)],
     body |-> wire.body]

\* Status::from_code
from_code(code) == IF code \in KnownStatusCodes THEN Some(code) ELSE None

unwrap_or(opt, default) == IF opt = None THEN default ELSE opt[1]

\* translate_status falling back to 502 Bad Gateway
translate_status_bad_gateway(status_code) == unwrap_or(from_code(status_code), 502)

\* lines 233-234
translate_status(status_code) == unwrap_or(from_code(status_code), InternalServerError)

\* lines 237-242: the first content-type value when it is visible ASCII
extract_content_type(headers) ==
    LET idx == {i \in DOMAIN headers : headers[i].name = n_content_type}
    IN  IF idx = {} THEN OctetStream
        ELSE LET first == headers[CHOOSE i \in idx : \A j \in idx : i <= j].value
             IN  IF to_str_ok(first) THEN first ELSE OctetStream

RECURSIVE collect_response_headers(_)
\* lines 245-253
collect_response_headers(headers) ==
    IF headers = <<>> THEN <<>>
    ELSE LET h == Head(headers)
             rest == collect_response_headers(Tail(headers))
         IN  IF to_str_ok(h.value) /\ ~is_excluded(h.name)
             THEN <<h>> \o rest
             ELSE rest

(* ------------------------------ responders ---------------------------- *)
\* the media types of the model that ContentType::parse_flexible accepts
ParsableMediaTypes == {OctetStream, <<"application/json">>}

parse_flexible(content_type) ==
    IF content_type \in ParsableMediaTypes THEN Some(content_type) ELSE None

RECURSIVE remove_header(_, _)
remove_header(headers, name) ==
    IF headers = <<>> THEN <<>>
    ELSE IF to_lowercase(Head(headers).name) = to_lowercase(name)
         THEN remove_header(Tail(headers), name)
         ELSE <<Head(headers)>> \o remove_header(Tail(headers), name)

\* response::Builder::header replaces any header of the same name
set_header(headers, h) == Append(remove_header(headers, h.name), h)

RECURSIVE set_headers(_, _)
set_headers(headers, new) ==
    IF new = <<>> THEN headers
    ELSE set_headers(set_header(headers, Head(new)), Tail(new))

\* ProxyResponse::respond_to
proxy_respond_to(self) ==
    LET ct == parse_flexible(self.content_type)
        h0 == IF ct # None THEN <<Hdr(n_Content_Type, ct[1])>> ELSE <<>>
    IN  [status |-> self.status,
         headers |-> set_headers(h0, self.headers),
         body |-> self.body]

\* error_respond_to answering 502 Bad Gateway
error_respond_to_bad_gateway(self) ==
    [status |-> 502,
     headers |-> <<Hdr(n_Content_Type, PlainContentType)>>,
     body |-> InternalServerErrorBody]

\* error_respond_to printing the error into the body
error_respond_to_verbose(self) ==
    [status |-> InternalServerError,
     headers |-> <<Hdr(n_Content_Type, PlainContentType)>>,
     body |-> InternalServerErrorBody \o <<": ", self.msg>>]

\* ErrorResponse::respond_to
error_respond_to(self) ==
    [status |-> InternalServerError,
     headers |-> <<Hdr(n_Content_Type, PlainContentType)>>,
     body |-> InternalServerErrorBody]

\* Rocket's answer when no mounted route matches the method
NotFoundResponse ==
    [status |-> 404,
     headers |-> <<Hdr(n_Content_Type, <<"text/html; charset=utf-8">>)>>,
     body |-> <<"404 Not Found">>]

(* ------------------------------- state -------------------------------- *)
VARIABLES
    pc,               \* where the call stands
    inbound,          \* the inbound request: method, path, query, headers, data
    request_builder,  \* the upstream request being built: None or Some
    sent,             \* the upstream requests put on the network by this call
    elapsed,          \* seconds the pending send() has been waited for
    response,         \* the upstream response: None or Some
    translated,       \* status, content_type, response_headers: None or Some
    result,           \* what handle_request returned: None or Some(Ok/Err)
    outbound,         \* the response handed back to the caller: None or Some
    log               \* what error! has written during this call

vars == <<pc, inbound, request_builder, sent, elapsed, response, translated,
          result, outbound, log>>

NoRequest == [method |-> "None", path |-> <<>>, query |-> None, headers |-> <<>>,
              data |-> None]

Init ==
    /\ pc = "Idle"
    /\ inbound = NoRequest
    /\ request_builder = None
    /\ sent = <<>>
    /\ elapsed = 0
    /\ response = None
    /\ translated = None
    /\ result = None
    /\ outbound = None
    /\ log = <<>>

(* ------------------------------ inputs -------------------------------- *)
Paths == {<<>>, <<"users", "/", "1">>}

QueryChunks == {"a=1", "&b=%20"}

\* Option<String>: absent, empty, or any short run of chunks
Queries == {None} \cup {Some(q) : q \in SeqsUpTo(QueryChunks, MaxQueryLen)}

\* body lengths around the limit
BodyLens == {0, BodyLimit} \cup {BodyLimit + k : k \in 1..MaxOver}

ReqHeaderLists ==
    {<<>>,
     <<Hdr(n_Accept, <<"application/json">>)>>,
     <<Hdr(n_User_Agent, <<"curl/8">>), Hdr(n_Host, <<"proxy.example">>)>>}

ReqHeaderPool ==
    {Hdr(n_Host, <<"proxy.example">>), Hdr(n_HOST, <<"proxy.example">>),
     Hdr(n_host, <<"proxy.example">>), Hdr(n_Connection, <<"keep-alive">>),
     Hdr(n_Content_Length, <<"12">>), Hdr(n_Transfer_Encoding, <<"chunked">>),
     Hdr(n_X_Frame_Options, <<"DENY">>), Hdr(n_Accept, <<"application/json">>)}

UnroutedMethods == {"Patch", "Options"}

IoCauses == {"connection reset", "unexpected eof"}

TransportCauses == {"dns error", "connection refused"}

\* the error of the Client's own timeout, Duration::from_secs(30) as well
ClientTimeout == "operation timed out"

ResponseBodies == {<<>>, <<"{\"name\":\"a\"}">>}

StatusCodes == {200, 299, 404, 500, 599, 999}

RespHeaderLists ==
    {<<>>,
     <<Hdr(n_Content_Type, <<"application/json">>)>>,
     <<Hdr(n_X_Bin, <<"0xE9">>), Hdr(n_Content_Length, <<"12">>)>>}

RespHeaderPool ==
    {Hdr(n_Set_Cookie, <<"a=1">>), Hdr(n_Set_Cookie, <<"b=2">>),
     Hdr(n_Content_Type, <<"application/json">>), Hdr(n_Content_Length, <<"12">>),
     Hdr(n_Transfer_Encoding, <<"chunked">>), Hdr(n_Connection, <<"close">>),
     Hdr(n_Host, <<"www.roblox.com">>), Hdr(n_X_Frame_Options, <<"SAMEORIGIN">>)}

\* the upstream responses of the general specification
Responses ==
    {[status |-> s, headers |-> h, body |-> b] :
        s \in StatusCodes, h \in RespHeaderLists, b \in ResponseBodies}

\* the requests and responses of the specification about headers: a call
\* sees at most MaxHeaders headers, inbound and upstream together
HdrReqHeaderLists == SeqsUpTo(ReqHeaderPool, MaxHeaders)

HdrResponses(n) ==
    {[status |-> 200, headers |-> h, body |-> <<"ok">>] :
        h \in SeqsUpTo(RespHeaderPool, n)}

(* ------------------------------ actions ------------------------------- *)
\* Rocket hands a request to a route handler, which calls handle_request
Receive(method, path, query, headers, data) ==
    /\ pc = "Idle"
    /\ pc' = "Received"
    /\ inbound' = [method |-> method, path |-> path, query |-> query,
                   headers |-> headers, data |-> data]
    /\ request_builder' = None
    /\ sent' = <<>>
    /\ elapsed' = 0
    /\ response' = None
    /\ translated' = None
    /\ result' = None
    /\ outbound' = None
    /\ log' = <<>>

get_request(P, Q, H) ==
    \E path \in P, query \in Q, headers \in H :
        Receive("Get", path, query, headers, None)

post_request(P, Q, H, L) ==
    \E path \in P, query \in Q, headers \in H, len \in L :
        Receive("Post", path, query, headers, Some(len))

put_request(P, Q, H, L) ==
    \E path \in P, query \in Q, headers \in H, len \in L :
        Receive("Put", path, query, headers, Some(len))

delete_request(P, Q, H) ==
    \E path \in P, query \in Q, headers \in H :
        Receive("Delete", path, query, headers, None)

\* a method without a mounted route never reaches handle_request
no_route(P, Q, H) ==
    /\ pc = "Idle"
    /\ \E method \in UnroutedMethods, path \in P, query \in Q, headers \in H :
         inbound' = [method |-> method, path |-> path, query |-> query,
                     headers |-> headers, data |-> None]
    /\ pc' = "Responded"
    /\ request_builder' = None
    /\ sent' = <<>>
    /\ elapsed' = 0
    /\ response' = None
    /\ translated' = None
    /\ result' = None
    /\ outbound' = Some(NotFoundResponse)
    /\ log' = <<>>

\* handle_request, lines 148-190: url, method match, headers
translate_request ==
    /\ pc = "Received"
    /\ IF inbound.method \in SupportedMethods
       THEN /\ request_builder' =
                  Some(new_request_builder(inbound.method,
                                           build_url(inbound.path, inbound.query),
                                           inbound.headers))
            /\ pc' = IF inbound.data # None THEN "ReadingBody" ELSE "Dispatching"
            /\ result' = result
       ELSE /\ result' = Some(Err(anyhow("Unsupported method")))
            /\ pc' = "Returned"
            /\ request_builder' = request_builder
    /\ UNCHANGED <<inbound, sent, elapsed, response, translated, outbound, log>>

\* handle_request, lines 193-202: the await on the inbound body
read_body ==
    /\ pc = "ReadingBody"
    /\ \/ /\ request_builder' =
                Some([request_builder[1] EXCEPT !.body = Some(into_bytes(inbound.data[1]))])
          /\ pc' = "Dispatching"
          /\ result' = result
       \/ \E cause \in IoCauses :
            /\ result' = Some(Err(context("Failed to read request body", cause)))
            /\ pc' = "Returned"
            /\ request_builder' = request_builder
    /\ UNCHANGED <<inbound, sent, elapsed, response, translated, outbound, log>>

\* line 218: request_builder.send() under tokio::time::timeout
send ==
    /\ pc = "Dispatching"
    /\ sent' = Append(sent,
                      [request_builder[1] EXCEPT
                         !.headers = apply_default_headers(@, ClientDefaultHeaders)])
    /\ elapsed' = 0
    /\ pc' = "Awaiting"
    /\ UNCHANGED <<inbound, request_builder, response, translated, result, outbound, log>>

\* a second passes while the send is pending
tick ==
    /\ pc = "Awaiting"
    /\ elapsed < TimeoutSecs
    /\ elapsed' = elapsed + 1
    /\ UNCHANGED <<pc, inbound, request_builder, sent, response, translated, result,
                   outbound, log>>

\* line 220, Ok(Ok(response))
upstream_reply(R) ==
    /\ pc = "Awaiting"
    /\ \E wire \in R : response' = Some(received(wire))
    /\ pc' = "Translating"
    /\ elapsed' = 0
    /\ UNCHANGED <<inbound, request_builder, sent, translated, result, outbound, log>>

\* upstream_fail going back to send the request again
upstream_fail_retry ==
    /\ pc = "Awaiting"
    /\ pc' = "Dispatching"
    /\ elapsed' = 0
    /\ UNCHANGED <<inbound, request_builder, sent, response, translated, result,
                   outbound, log>>

\* line 220, Ok(Err(e)): a transport failure at any moment, or the Client's
\* own timeout at the deadline
upstream_fail ==
    /\ pc = "Awaiting"
    /\ \E cause \in TransportCauses \cup {ClientTimeout} :
         /\ (cause = ClientTimeout) => (elapsed = TimeoutSecs)
         /\ result' = Some(Err(context("Failed to send HTTP request", cause)))
    /\ pc' = "Returned"
    /\ elapsed' = 0
    /\ UNCHANGED <<inbound, request_builder, sent, response, translated, outbound, log>>

\* timeout_elapsed starting the wait again instead of returning
timeout_elapsed_keeps_waiting ==
    /\ pc = "Awaiting"
    /\ elapsed = TimeoutSecs
    /\ elapsed' = 0
    /\ UNCHANGED <<pc, inbound, request_builder, sent, response, translated, result,
                   outbound, log>>

\* lines 221-223, Err(_): the deadline has passed
timeout_elapsed ==
    /\ pc = "Awaiting"
    /\ elapsed = TimeoutSecs
    /\ result' = Some(Err(anyhow("Request to Roblox timed out")))
    /\ pc' = "Returned"
    /\ elapsed' = 0
    /\ UNCHANGED <<inbound, request_builder, sent, response, translated, outbound, log>>

\* translate_response rejecting a status the framework does not know
translate_response_rejecting ==
    /\ pc = "Translating"
    /\ IF response[1].status \in KnownStatusCodes
       THEN /\ translated' =
                  Some([status |-> translate_status(response[1].status),
                        content_type |-> extract_content_type(response[1].headers),
                        response_headers |-> collect_response_headers(response[1].headers)])
            /\ pc' = "ReadingResponseBody"
            /\ result' = result
       ELSE /\ result' = Some(Err(anyhow("Invalid upstream status")))
            /\ pc' = "Returned"
            /\ translated' = translated
    /\ UNCHANGED <<inbound, request_builder, sent, elapsed, response, outbound, log>>

\* handle_request, lines 233-253
translate_response ==
    /\ pc = "Translating"
    /\ translated' =
          Some([status |-> translate_status(response[1].status),
                content_type |-> extract_content_type(response[1].headers),
                response_headers |-> collect_response_headers(response[1].headers)])
    /\ pc' = "ReadingResponseBody"
    /\ UNCHANGED <<inbound, request_builder, sent, elapsed, response, result, outbound, log>>

\* handle_request, lines 255-271: the await on the upstream body
read_response_body ==
    /\ pc = "ReadingResponseBody"
    /\ \/ result' = Some(Ok([status |-> translated[1].status,
                             content_type |-> translated[1].content_type,
                             body |-> response[1].body,
                             headers |-> translated[1].response_headers]))
       \/ \E cause \in IoCauses :
            result' = Some(Err(context("Failed to read response body", cause)))
    /\ pc' = "Returned"
    /\ UNCHANGED <<inbound, request_builder, sent, elapsed, response, translated,
                   outbound, log>>

\* ProxyResponse::respond_to on Ok
respond_ok ==
    /\ pc = "Returned"
    /\ result[1].ok
    /\ outbound' = Some(proxy_respond_to(result[1].value))
    /\ pc' = "Responded"
    /\ UNCHANGED <<inbound, request_builder, sent, elapsed, response, translated,
                   result, log>>

\* ErrorResponse::respond_to on Err
respond_err ==
    /\ pc = "Returned"
    /\ ~result[1].ok
    /\ log' = Append(log, result[1].err)
    /\ outbound' = Some(error_respond_to(result[1].err))
    /\ pc' = "Responded"
    /\ UNCHANGED <<inbound, request_builder, sent, elapsed, response, translated, result>>

\* the call is over: everything it owned is dropped
end_call ==
    /\ pc = "Responded"
    /\ pc' = "Idle"
    /\ inbound' = NoRequest
    /\ request_builder' = None
    /\ sent' = <<>>
    /\ elapsed' = 0
    /\ response' = None
    /\ translated' = None
    /\ result' = None
    /\ outbound' = None
    /\ log' = <<>>

Handle(R) ==
    \/ translate_request
    \/ read_body
    \/ send
    \/ tick
    \/ upstream_reply(R)
    \/ upstream_fail
    \/ timeout_elapsed
    \/ translate_response
    \/ read_response_body
    \/ respond_ok
    \/ respond_err
    \/ end_call

Next ==
    \/ get_request(Paths, Queries, ReqHeaderLists)
    \/ post_request(Paths, Queries, ReqHeaderLists, BodyLens)
    \/ put_request(Paths, Queries, ReqHeaderLists, BodyLens)
    \/ delete_request(Paths, Queries, ReqHeaderLists)
    \/ no_route(Paths, Queries, ReqHeaderLists)
    \/ Handle(Responses)

Spec == Init /\ [][Next]_vars

\* the same program with the inputs spent on headers
NextHeaders ==
    \/ get_request({<<"users">>}, {None}, HdrReqHeaderLists)
    \/ post_request({<<"users">>}, {None}, HdrReqHeaderLists, {1})
    \/ put_request({<<"users">>}, {None}, HdrReqHeaderLists, {1})
    \/ delete_request({<<"users">>}, {None}, HdrReqHeaderLists)
    \/ no_route({<<"users">>}, {None}, {<<>>})
    \/ Handle(HdrResponses(MaxHeaders - Len(inbound.headers)))

SpecHeaders == Init /\ [][NextHeaders]_vars

(* ------------------------- vocabulary of the claims ------------------- *)
\* the four framing headers the specification denies
DenySet == {n_host, n_connection, n_content_length, n_transfer_encoding}

Failed == result # None /\ ~result[1].ok

Succeeded == result # None /\ result[1].ok

FailedWith(msg) == Failed /\ result[1].err.msg = msg

\* the deadline of line 218 passed, or the client's own 30 s timeout fired
TimedOut ==
    \/ FailedWith("Request to Roblox timed out")
    \/ /\ FailedWith("Failed to send HTTP request")
       /\ result[1].err.source = Some(ClientTimeout)

Unrouted == inbound.method \in UnroutedMethods

TooLarge == inbound.data # None /\ inbound.data[1] > BodyLimit

\* the status the specification fixes for each kind of failure
SpecStatus ==
    IF FailedWith("Unsupported method") THEN 405
    ELSE IF FailedWith("Failed to read request body") THEN 500
    ELSE IF TimedOut THEN 504
    ELSE IF FailedWith("Failed to send HTTP request") THEN 502
    ELSE 500

C2_SizeLimit ==
    /\ (inbound.data # None /\ ~TooLarge /\ sent # <<>>) =>
           (sent[1].body = Some(inbound.data[1]))
    /\ TooLarge => (sent = <<>>)
    /\ (TooLarge /\ pc = "Responded") => (outbound[1].status = 413)

C5_DenySet ==
    /\ \A i \in DOMAIN sent : \A j \in DOMAIN sent[i].headers :
           to_lowercase(sent[i].headers[j].name) \notin DenySet
    /\ (outbound # None /\ Succeeded) =>
           \A j \in DOMAIN outbound[1].headers :
               to_lowercase(outbound[1].headers[j].name) \notin DenySet

C5_Witness ==
    /\ pc = "Responded"
    /\ Succeeded
    /\ \E i \in DOMAIN inbound.headers : inbound.headers[i].name = n_HOST
    /\ \E i \in DOMAIN response[1].headers :
           response[1].headers[i].name = n_content_length
    /\ Len(sent) = 1

(* -------------------------------- C6 ---------------------------------- *)
\* C6: every inbound header outside the deny set is on the upstream request
\* with its name and value, every upstream response header outside the deny
\* set is on the outbound response with its value, and the upstream request
\* carries nothing but allowed inbound headers.
C6_HeaderRoundTrip ==
    (pc = "Responded" /\ Succeeded) =>
        /\ \A i \in DOMAIN inbound.headers :
               to_lowercase(inbound.headers[i].name) \notin DenySet =>
                   \E j \in DOMAIN sent[1].headers :
                       sent[1].headers[j] = inbound.headers[i]
        /\ \A i \in DOMAIN response[1].headers :
               to_lowercase(response[1].headers[i].name) \notin DenySet =>
                   \E j \in DOMAIN outbound[1].headers :
                       /\ to_lowercase(outbound[1].headers[j].name)
                              = to_lowercase(response[1].headers[i].name)
                       /\ outbound[1].headers[j].value = response[1].headers[i].value
        /\ \A j \in DOMAIN sent[1].headers :
               \E i \in DOMAIN inbound.headers :
                   /\ to_lowercase(inbound.headers[i].name) \notin DenySet
                   /\ to_lowercase(inbound.headers[i].name)
                          = to_lowercase(sent[1].headers[j].name)
                   /\ inbound.headers[i].value = sent[1].headers[j].value

PreDispatchMessages == {"Unsupported method", "Failed to read request body"}

\* C8: a call sends at most once: exactly once when it reached dispatch,
\* never when it failed before; after a dispatch failure the next step is
\* the error response, with nothing further sent.
C8_SingleSend ==
    /\ [](Len(sent) <= 1)
    /\ [](pc \in {"Awaiting", "Translating", "ReadingResponseBody"} => Len(sent) = 1)
    /\ []((result # None) =>
            IF Failed /\ result[1].err.msg \in PreDispatchMessages
            THEN sent = <<>> ELSE Len(sent) = 1)
    /\ [](Unrouted => sent = <<>>)
    /\ [][(pc = "Returned") => (pc' = "Responded" /\ sent' = sent)]_vars
    /\ [][(pc = "Awaiting" /\ pc' # "Awaiting") =>
             (pc' \in {"Translating", "Returned"} /\ sent' = sent)]_vars

C8_Witness ==
    /\ pc = "Responded"
    /\ FailedWith("Failed to send HTTP request")
    /\ Len(sent) = 1
    /\ outbound # None

(* -------------------------------- C9 ---------------------------------- *)
\* every text an error carries: its message and its cause
Detail(err) == {err.msg} \cup {err.source[i] : i \in DOMAIN err.source}

\* C9: the response to a failed call is the same fixed text for every error,
\* carries nothing of the error, and the error is logged.
C9_NoLeak ==
    (pc = "Responded" /\ Failed) =>
        /\ outbound[1].body = InternalServerErrorBody
        /\ \A i \in DOMAIN outbound[1].body :
               outbound[1].body[i] \notin Detail(result[1].err)
        /\ \A i \in DOMAIN outbound[1].headers :
               \A k \in DOMAIN outbound[1].headers[i].value :
                   outbound[1].headers[i].value[k] \notin Detail(result[1].err)
        /\ log = <<result[1].err>>

C9_Witness ==
    /\ pc = "Responded"
    /\ Failed
    /\ result[1].err.source = Some("dns error")
    /\ log # <<>>
    /\ outbound[1].body = InternalServerErrorBody

(* -------------------------------- C10 --------------------------------- *)
\* C10 as written: once the upstream has answered, the call ends with the
\* translated response and the upstream body, never with an error.
C10_NoFailureAfterDispatch ==
    (response # None /\ pc \in {"Returned", "Responded"}) =>
        /\ Succeeded
        /\ (pc = "Responded") => (outbound[1].body = response[1].body)

\* C10 amended: once the upstream has answered, translating status and
\* headers cannot fail, and the call ends either with the translated
\* response and the upstream body unchanged, or, when reading the upstream
\* body failed, with the error response (500).
C10_OnlyBodyReadFails ==
    /\ (pc = "ReadingResponseBody") => (translated # None /\ result = None)
    /\ (response # None /\ pc \in {"Returned", "Responded"}) =>
           \/ /\ Succeeded
              /\ result[1].value.body = response[1].body
              /\ (pc = "Responded") => (outbound[1].body = response[1].body)
           \/ /\ FailedWith("Failed to read response body")
              /\ (pc = "Responded") => (outbound[1].status = 500)

C10_Witness ==
    /\ pc = "Responded"
    /\ response # None
    /\ response[1].status = 999
    /\ FailedWith("Failed to read response body")
    /\ outbound[1].status = 500

====
